---- MODULE Spec2Model ----
(***************************************************************************)
(* A model of src/js/cpdax.js: the request signer (sign), the error        *)
(* classifier (handleErrors) and the market normaliser (fetchMarkets) of   *)
(* the cpdax exchange class.                                               *)
(*                                                                         *)
(* Strings are sequences of tokens (a token is a TLA+ string standing for  *)
(* a run of characters), concatenation is \o, and `a is a substring of b'  *)
(* is `a is a contiguous subsequence of b'.  A JavaScript object is a      *)
(* sequence of [k, v] records with distinct keys, in insertion order.      *)
(* The JavaScript value undefined is the token "undefined", the string it  *)
(* yields under string concatenation.                                      *)
(***************************************************************************)
EXTENDS Integers, Sequences, FiniteSets, TLC

VARIABLES
    apiKey,      \* this.apiKey
    secret,      \* this.secret
    nonceLast,   \* the last value the nonce source issued
    pc,          \* where each concurrent caller is
    issued,      \* caller and CP-ACCESS-TIMESTAMP of every signed request, in issuance order
    lastCall,    \* the arguments of the last sign() call
    lastSigned,  \* what the last sign() call returned
    exceptions,  \* this.exceptions: the exact and the broad table
    heCall,      \* the arguments of the last handleErrors() call
    heResult,    \* how the last handleErrors() call ended
    fmResponse,  \* the venue's answer to publicGetProducts
    fmResult     \* how the last fetchMarkets() call ended

vars == <<apiKey, secret, nonceLast, pc, issued, lastCall, lastSigned,
          exceptions, heCall, heResult, fmResponse, fmResult>>

signVars == <<apiKey, secret, nonceLast, pc, issued, lastCall, lastSigned>>
errorVars == <<exceptions, heCall, heResult>>
marketVars == <<fmResponse, fmResult>>

-----------------------------------------------------------------------------
(* Bounds of the model *)

\* the nonce source stops at this value
MaxNonce == 3
\* the largest jump of the nonce source between two issuances
MaxStep == 2
\* the largest number of keys of a params object
MaxParams == 3
\* the largest number of tokens of a venue error message
MaxMsgLen == 3
\* the largest number of records in the venue's product list
MaxMarkets == 2

Undefined == "undefined"

Callers == {"c1", "c2"}

-----------------------------------------------------------------------------
(* Helpers on strings and objects *)

RECURSIVE Join(_, _)
\* the strings of seq joined by the token sep
Join(seq, sep) ==
    IF Len(seq) = 0 THEN <<>>
    ELSE IF Len(seq) = 1 THEN seq[1]
    ELSE seq[1] \o <<sep>> \o Join(Tail(seq), sep)

\* String.prototype.indexOf (key) >= 0
IsSubstring(key, s) ==
    \E i \in 0..(Len(s) - Len(key)) :
        \A j \in 1..Len(key) : s[i + j] = key[j]

\* Object.keys (obj), as a set
Keys(obj) == {obj[i].k : i \in 1..Len(obj)}

\* key in obj
HasKey(obj, key) == \E i \in 1..Len(obj) : obj[i].k = key

\* obj[key], for a key of obj
Get(obj, key) == obj[CHOOSE i \in 1..Len(obj) : obj[i].k = key].v

\* String.prototype.toUpperCase on the method names
ToUpperCase(s) ==
    CASE s = "get" -> "GET"
      [] s = "post" -> "POST"
      [] s = "delete" -> "DELETE"
      [] OTHER -> s

-----------------------------------------------------------------------------
(* describe () *)

Lit(s) == [ph |-> FALSE, s |-> s]
Ph(s) == [ph |-> TRUE, s |-> s]

version == "v1"

UrlsApi == [public |-> "https://www.cpdax.com", private |-> "https://www.cpdax.com"]

DefaultApiKey == "752d07a5cef56223ed1b0c558fbcfb444f012f4338d132eb46c8ca6c7981928a"
DefaultSecret == "MmIyNDRiYTctMDMzMy00ODkyLThlNTgtZTRhNmRlN2ZjZDZm"

\* the endpoint table: api class, method key, path template (segments between '/')
Api ==
    { [api |-> "public", method |-> "get", path |-> <<Lit("currencies")>>],
      [api |-> "public", method |-> "get", path |-> <<Lit("products")>>],
      [api |-> "public", method |-> "get", path |-> <<Lit("tickers")>>],
      [api |-> "public", method |-> "get", path |-> <<Lit("tickers"), Lit("detailed")>>],
      [api |-> "public", method |-> "get", path |-> <<Lit("tickers"), Ph("symbol")>>],
      [api |-> "public", method |-> "get", path |-> <<Lit("tickers"), Ph("symbol"), Lit("detailed")>>],
      [api |-> "public", method |-> "get", path |-> <<Lit("trades"), Ph("symbol")>>],
      [api |-> "public", method |-> "get", path |-> <<Lit("orderbook"), Ph("symbol")>>],
      [api |-> "private", method |-> "post", path |-> <<Lit("orders")>>],
      [api |-> "private", method |-> "get", path |-> <<Lit("orders"), Ph("symbol")>>],
      [api |-> "private", method |-> "get", path |-> <<Lit("orders"), Ph("symbol"), Ph("id")>>],
      [api |-> "private", method |-> "get", path |-> <<Lit("fee-rates")>>],
      [api |-> "private", method |-> "get", path |-> <<Lit("balance")>>],
      [api |-> "private", method |-> "get", path |-> <<Lit("transactions"), Ph("product_id")>>],
      [api |-> "private", method |-> "delete", path |-> <<Lit("orders"), Ph("symbol"), Ph("id")>>],
      [api |-> "private", method |-> "delete", path |-> <<Lit("orders"), Ph("symbol")>>] }

-----------------------------------------------------------------------------
(* The collaborators of sign () in ./base/Exchange *)

\* this.extractParams (path): the names between braces
extractParams(path) == {path[i].s : i \in {j \in 1..Len(path) : path[j].ph}}

\* this.implodeParams (path, params): each {name} replaced by params[name]
implodeParams(path, params) ==
    Join([i \in 1..Len(path) |->
            IF path[i].ph
            THEN IF HasKey(params, path[i].s)
                 THEN <<Get(params, path[i].s)>>
                 ELSE <<"{" \o path[i].s \o "}">>
            ELSE <<path[i].s>>], "/")

\* this.omit (params, keys)
omit(params, keys) == SelectSeq(params, LAMBDA kv : kv.k \notin keys)

\* this.urlencode (query): k=v joined by &
urlencode(query) ==
    Join([i \in 1..Len(query) |-> <<query[i].k, "=", query[i].v>>], "&")

\* JSON.stringify (obj) of an object of strings
JSONstringify(obj) ==
    <<"{">> \o Join([i \in 1..Len(obj) |-> <<"\"" \o obj[i].k \o "\"", ":", "\"" \o obj[i].v \o "\"">>], ",") \o <<"}">>

\* this.hmac (payload, secret, 'sha256'): a keyed digest, one per (payload, secret)
hmac(payload, key) == [key |-> key, msg |-> payload]

\* path.indexOf ('/hist') >= 0: a segment hist after a '/'
PathHasHist(path) == \E i \in 2..Len(path) : ~path[i].ph /\ path[i].s = "hist"

NoBody == [defined |-> FALSE, obj |-> <<>>]
NoHeaders == [defined |-> FALSE, key |-> "", timestamp |-> 0, digest |-> hmac(<<>>, "")]

-----------------------------------------------------------------------------
(* sign (path, api, method, params, headers, body) *)

\* a faulty variant of Payload: the key after the timestamp
PayloadKeyAfterTimestamp(key, timestamp, method, request) ==
    <<ToString(timestamp), key, ToUpperCase(method)>> \o request

\* this.apiKey + timestamp + method.toUpperCase () + request
Payload(key, timestamp, method, request) ==
    <<key, ToString(timestamp), ToUpperCase(method)>> \o request

\* method == 'POST' && params: params is an object, and an object is truthy
AppendsBody(method, params) == method = "POST"

\* a faulty variant of Headers: the timestamp header in a coarser unit than the nonce
HeadersCoarseTimestamp(key, timestamp, signature) ==
    [defined |-> TRUE, key |-> key, timestamp |-> timestamp \div 2, digest |-> signature]

\* the CP-ACCESS-KEY, CP-ACCESS-TIMESTAMP and CP-ACCESS-DIGEST headers
Headers(key, timestamp, signature) ==
    [defined |-> TRUE, key |-> key, timestamp |-> timestamp, digest |-> signature]

\* the descriptor sign () returns; timestamp is what this.nonce () returned,
\* read only on the private branch.  The local query of the private branch
\* (this.extend ({request}, query)) is assigned and never read.
sign(path, api, method, params, headers, body, timestamp) ==
    LET imploded == <<"/">> \o implodeParams(path, params)
        request0 == <<"/", version>> \o imploded
        query == omit(params, extractParams(path))
        suffix == <<"?">> \o urlencode(query)
        request == IF (api = "public" \/ PathHasHist(path)) /\ Len(query) > 0
                   THEN request0 \o suffix
                   ELSE request0
        payload0 == Payload(apiKey, timestamp, method, request)
        withBody == AppendsBody(method, params)
        body1 == IF api = "private" /\ withBody
                 THEN [defined |-> TRUE, obj |-> params]
                 ELSE body
        payload == IF withBody THEN payload0 \o JSONstringify(body1.obj) ELSE payload0
        headers1 == IF api = "private"
                    THEN Headers(apiKey, timestamp, hmac(payload, secret))
                    ELSE headers
    IN  [url |-> <<UrlsApi[api]>> \o request, method |-> method,
         body |-> body1, headers |-> headers1, error |-> "none"]

\* the params objects the callers pass: the path's placeholders and up to
\* MaxParams keys in all
AllParams ==
    << [k |-> "symbol", v |-> "BTC-KRW"], [k |-> "id", v |-> "42"],
       [k |-> "product_id", v |-> "ETH-KRW"], [k |-> "size", v |-> "0.5"] >>

ParamSets(path, most) ==
    { SelectSeq(AllParams, LAMBDA kv : kv.k \in S) :
        S \in { T \in SUBSET Keys(AllParams) :
                  extractParams(path) \subseteq T /\ Cardinality(T) <= most } }

NoCall ==
    [called |-> FALSE, by |-> "", path |-> <<>>, api |-> "", method |-> "",
     params |-> <<>>, apiKey |-> "", secret |-> "", nonceBefore |-> 0]

NoResult ==
    [url |-> <<>>, method |-> "", body |-> NoBody, headers |-> NoHeaders, error |-> "none"]

\* One request through a generated endpoint method: the base class calls
\* sign (path, api, METHOD, params) with headers and body undefined; a private
\* call draws the next nonce, larger than every one issued before.
DoSign(c, e, params, ts) ==
    /\ lastCall' = [called |-> TRUE, by |-> c, path |-> e.path, api |-> e.api,
                    method |-> ToUpperCase(e.method), params |-> params,
                    apiKey |-> apiKey, secret |-> secret, nonceBefore |-> nonceLast]
    /\ lastSigned' = sign(e.path, e.api, ToUpperCase(e.method), params, NoHeaders, NoBody, ts)
    /\ IF e.api = "private"
       THEN /\ nonceLast' = ts
            /\ issued' = Append(issued, [by |-> c, timestamp |-> lastSigned'.headers.timestamp])
       ELSE UNCHANGED <<nonceLast, issued>>
    /\ UNCHANGED <<apiKey, secret>>

\* this.nonce (): the values the nonce source can return next
nonce == {n \in (nonceLast + 1)..(nonceLast + MaxStep) : n <= MaxNonce}

\* only a private call reaches this.nonce ()
NoncesFor(api) == IF api = "private" THEN nonce ELSE {nonceLast}

\* sign () applied to every endpoint and params object
Sign ==
    /\ ~lastCall.called
    /\ \E e \in Api :
           \E ts \in NoncesFor(e.api), params \in ParamSets(e.path, MaxParams) :
               DoSign("c1", e, params, ts)
    /\ UNCHANGED <<pc, errorVars, marketVars>>

\* the caller has the descriptor
SignReturn ==
    /\ lastCall.called
    /\ lastCall' = NoCall
    /\ lastSigned' = NoResult
    /\ UNCHANGED <<apiKey, secret, nonceLast, pc, issued, errorVars, marketVars>>

\* a caller enters one of the async methods and awaits loadMarkets ()
Invoke(c) ==
    /\ pc[c] = "idle"
    /\ pc' = [pc EXCEPT ![c] = "loading"]
    /\ UNCHANGED <<apiKey, secret, nonceLast, issued, lastCall, lastSigned, errorVars, marketVars>>

\* the caller resumes, the request is signed and handed to the transport
Request(c) ==
    /\ pc[c] = "loading"
    /\ \E e \in Api :
           \E ts \in NoncesFor(e.api), params \in ParamSets(e.path, Cardinality(extractParams(e.path))) :
               DoSign(c, e, params, ts)
    /\ pc' = [pc EXCEPT ![c] = "inflight"]
    /\ UNCHANGED <<errorVars, marketVars>>

\* the transport answers and the caller's method returns
Respond(c) ==
    /\ pc[c] = "inflight"
    /\ pc' = [pc EXCEPT ![c] = "idle"]
    /\ UNCHANGED <<apiKey, secret, nonceLast, issued, lastCall, lastSigned, errorVars, marketVars>>

Credentials == {DefaultApiKey, Undefined} \X {DefaultSecret, Undefined}

\* the signer after construction, with credentials among creds
InitSign(creds) ==
    /\ \E cr \in creds : apiKey = cr[1] /\ secret = cr[2]
    /\ nonceLast = 0
    /\ pc = [c \in Callers |-> "idle"]
    /\ issued = <<>>
    /\ lastCall = NoCall
    /\ lastSigned = NoResult

-----------------------------------------------------------------------------
(* handleErrors (code, reason, url, method, headers, body) *)

\* A response body is a sequence of lexemes: the one-character ones "{", "}",
\* ":", "," and "junk" (any other single character), a quoted string "str"
\* with its content, and "text", a run of two or more other characters.
Tok(t) == [t |-> t, v |-> <<>>]
Str(s) == [t |-> "str", v |-> s]

OneChar == {"{", "}", ":", ",", "junk"}

\* body.length < 2
LengthBelow2(body) == Len(body) = 0 \/ (Len(body) = 1 /\ body[1].t \in OneChar)

\* obj with obj[key] = value: a repeated key keeps its place and takes the later value
Put(obj, key, value) ==
    IF HasKey(obj, key)
    THEN [i \in 1..Len(obj) |-> IF obj[i].k = key THEN [k |-> key, v |-> value] ELSE obj[i]]
    ELSE Append(obj, [k |-> key, v |-> value])

RECURSIVE ParseMembers(_, _)
\* the members of a JSON object after "{" or ",": "key" : "value" then "," or "}"
ParseMembers(toks, acc) ==
    IF Len(toks) >= 4 /\ toks[1].t = "str" /\ toks[2].t = ":" /\ toks[3].t = "str"
    THEN LET acc1 == Put(acc, toks[1].v, toks[3].v)
         IN  IF toks[4].t = "}"
             THEN [ok |-> Len(toks) = 4, obj |-> acc1]
             ELSE IF toks[4].t = ","
                  THEN ParseMembers(SubSeq(toks, 5, Len(toks)), acc1)
                  ELSE [ok |-> FALSE, obj |-> <<>>]
    ELSE [ok |-> FALSE, obj |-> <<>>]

\* JSON.parse (body) of a body that starts with "{": an object of strings, or
\* ok = FALSE where JSON.parse throws SyntaxError
JSONparse(body) ==
    IF Len(body) = 2 /\ body[2].t = "}"
    THEN [ok |-> TRUE, obj |-> <<>>]
    ELSE ParseMembers(Tail(body), <<>>)

\* this.findBroadlyMatchedKey (broad, string): the index of the first key, in
\* the table's order, that is a substring of the string; 0 for undefined
findBroadlyMatchedKey(broad, string) ==
    LET hits == {i \in 1..Len(broad) : IsSubstring(broad[i].k, string)}
    IN  IF hits = {} THEN 0 ELSE CHOOSE i \in hits : \A j \in hits : i <= j

\* describe ().exceptions.exact
DescribeExact ==
    << [k |-> <<"temporarily_unavailable">>, v |-> "ExchangeNotAvailable"],
       [k |-> <<"Order could not be cancelled.">>, v |-> "OrderNotFound"],
       [k |-> <<"No such order found.">>, v |-> "OrderNotFound"],
       [k |-> <<"Order price must be positive.">>, v |-> "InvalidOrder"],
       [k |-> <<"Could not find a key matching the given X-BFX-APIKEY.">>, v |-> "AuthenticationError"],
       [k |-> <<"Key price should be a decimal number, e.g. \"123.456\"">>, v |-> "InvalidOrder"],
       [k |-> <<"Key amount should be a decimal number, e.g. \"123.456\"">>, v |-> "InvalidOrder"],
       [k |-> <<"ERR_RATE_LIMIT">>, v |-> "DDoSProtection"],
       [k |-> <<"Ratelimit">>, v |-> "DDoSProtection"],
       [k |-> <<"Nonce is too small.">>, v |-> "InvalidNonce"],
       [k |-> <<"No summary found.">>, v |-> "ExchangeError"],
       [k |-> <<"Cannot evaluate your available balance, please try again">>, v |-> "ExchangeNotAvailable"] >>

\* a faulty variant of DescribeBroad: the key 'Invalid order' declared before the
\* longer keys that start with it
DescribeBroadShortFirst ==
    << [k |-> <<"This API key does not have permission">>, v |-> "PermissionDenied"],
       [k |-> <<"Invalid order">>, v |-> "InvalidOrder"],
       [k |-> <<"Invalid order", ": not enough exchange balance for ">>, v |-> "InsufficientFunds"],
       [k |-> <<"Invalid order", ": minimum size for ">>, v |-> "InvalidOrder"],
       [k |-> <<"The available balance is only">>, v |-> "InsufficientFunds"] >>

\* describe ().exceptions.broad, in declaration order
DescribeBroad ==
    << [k |-> <<"This API key does not have permission">>, v |-> "PermissionDenied"],
       [k |-> <<"Invalid order", ": not enough exchange balance for ">>, v |-> "InsufficientFunds"],
       [k |-> <<"Invalid order", ": minimum size for ">>, v |-> "InvalidOrder"],
       [k |-> <<"Invalid order">>, v |-> "InvalidOrder"],
       [k |-> <<"The available balance is only">>, v |-> "InsufficientFunds"] >>

\* this.exceptions is an instance property: describe ()'s tables, or those
\* tables extended by the configuration the instance was built with.  The
\* second value adds an exact key that a broad key is a substring of.
ExceptionTables ==
    { [exact |-> DescribeExact, broad |-> DescribeBroad],
      [exact |-> Append(DescribeExact,
                        [k |-> <<"The available balance is only", " 0.0 ETH">>, v |-> "ExchangeNotAvailable"]),
       broad |-> DescribeBroad] }

NoError == [raised |-> FALSE, kind |-> ""]
Throw(kind) == [raised |-> TRUE, kind |-> kind]

\* a faulty variant of Classify: the broad table consulted before the exact one
ClassifyBroadFirst(message) ==
    LET exact == exceptions.exact
        broad == exceptions.broad
        broadKey == findBroadlyMatchedKey(broad, message)
    IN  IF broadKey # 0 THEN Throw(broad[broadKey].v)
        ELSE IF HasKey(exact, message) THEN Throw(Get(exact, message))
        ELSE Throw("ExchangeError")

\* the error a body with a message raises: the exact table, then the broad one
Classify(message) ==
    LET exact == exceptions.exact
        broad == exceptions.broad
        broadKey == findBroadlyMatchedKey(broad, message)
    IN  IF HasKey(exact, message) THEN Throw(Get(exact, message))
        ELSE IF broadKey # 0 THEN Throw(broad[broadKey].v)
        ELSE Throw("ExchangeError")

\* a faulty variant of IsErrorStatus: every status from 200 on judged
IsErrorStatusFrom200(code) == code >= 200

\* code >= 400
IsErrorStatus(code) == code >= 400

handleErrors(code, body) ==
    IF LengthBelow2(body) THEN NoError
    ELSE IF IsErrorStatus(code)
    THEN IF body[1].t = "{"
         THEN LET parsed == JSONparse(body)
                  response == parsed.obj
              IN  IF ~parsed.ok THEN Throw("SyntaxError")
                  ELSE IF HasKey(response, <<"message">>) THEN Classify(Get(response, <<"message">>))
                  ELSE IF HasKey(response, <<"error">>) THEN Classify(Get(response, <<"error">>))
                  ELSE Throw("ExchangeError")
         ELSE NoError
    ELSE NoError

\* the tokens the venue's messages are made of.  A message is a string, as
\* the venue's failure payload carries one; the property names every object
\* inherits (constructor, toString, ...) are not among the messages.
MsgTokens ==
    { "Nonce is too small.", "Invalid order",
      ": not enough exchange balance for ",
      "The available balance is only", " 0.0 ETH",
      "This API key does not have permission" }

SeqsUpTo(S, n) == UNION {[1..m -> S] : m \in 0..n}

Messages == SeqsUpTo(MsgTokens, MaxMsgLen)

ShortMessages == SeqsUpTo({"Nonce is too small.", "Invalid order", " 0.0 ETH"}, 1)

Field(key, message) == <<Str(<<key>>), Tok(":"), Str(message)>>

\* the bodies the transport hands over: too short to judge, not JSON, broken
\* JSON, and JSON objects with one or two string fields
Bodies ==
    { <<>>, <<Tok("{")>>, <<Tok("junk")>> }
    \cup { <<Tok("text")>>, <<Tok("junk"), Tok("{")>>, <<Str(<<"Ratelimit">>)>> }
    \cup { <<Tok("{"), Tok("junk")>>, <<Tok("{"), Tok("{")>>,
           <<Tok("{")>> \o Field("message", <<"Ratelimit">>),
           <<Tok("{")>> \o Field("message", <<"Ratelimit">>) \o <<Tok(","), Tok("}")>>,
           <<Tok("{")>> \o Field("message", <<"Ratelimit">>) \o <<Tok("}"), Tok("text")>>,
           <<Tok("{"), Str(<<"message">>), Tok("}")>> }
    \cup { <<Tok("{"), Tok("}")>> }
    \cup { <<Tok("{")>> \o Field(key, m) \o <<Tok("}")>> :
             key \in {"message", "error", "status"}, m \in Messages }
    \cup { <<Tok("{")>> \o Field(k1, m1) \o <<Tok(",")>> \o Field(k2, m2) \o <<Tok("}")>> :
             k1 \in {"message", "error", "status"}, k2 \in {"message", "error"},
             m1 \in ShortMessages, m2 \in ShortMessages }

\* HTTP status codes
Codes == {200, 399, 400, 500}

NoResponse == [state |-> "idle", code |-> 0, body |-> <<>>]

\* the transport hands a response to the client
Receive ==
    /\ heCall.state = "idle"
    /\ \E code \in Codes, body \in Bodies :
           heCall' = [state |-> "received", code |-> code, body |-> body]
    /\ UNCHANGED <<exceptions, heResult, signVars, marketVars>>

\* handleErrors runs on the response
HandleErrors ==
    /\ heCall.state = "received"
    /\ heCall' = [heCall EXCEPT !.state = "handled"]
    /\ heResult' = handleErrors(heCall.code, heCall.body)
    /\ UNCHANGED <<exceptions, signVars, marketVars>>

\* the caller has the outcome; the client waits for the next response
Return ==
    /\ heCall.state = "handled"
    /\ heCall' = NoResponse
    /\ heResult' = NoError
    /\ UNCHANGED <<exceptions, signVars, marketVars>>

\* the classifier after construction, with its tables among tables
InitErrors(tables) ==
    /\ exceptions \in tables
    /\ heCall = NoResponse
    /\ heResult = NoError

-----------------------------------------------------------------------------
(* fetchMarkets () *)

\* JavaScript values: a number (an integer count of the venue's smallest
\* unit), undefined, NaN
Num(n) == [t |-> "num", n |-> n]
Undef == [t |-> "undefined", n |-> 0]
NaN == [t |-> "NaN", n |-> 0]

\* a * b on numbers and undefined
Times(a, b) == IF a.t = "num" /\ b.t = "num" THEN Num(a.n * b.n) ELSE NaN

\* a string value or undefined
Some(s) == [defined |-> TRUE, s |-> s]
None == [defined |-> FALSE, s |-> <<>>]

\* the string a value yields under +
ToStr(x) == IF x.defined THEN x.s ELSE <<Undefined>>

RECURSIVE SplitFrom(_, _, _)
\* String.prototype.split ('-'): cur is the segment being read
SplitFrom(s, cur, sep) ==
    IF Len(s) = 0 THEN <<cur>>
    ELSE IF s[1] = sep THEN <<cur>> \o SplitFrom(Tail(s), <<>>, sep)
    ELSE SplitFrom(Tail(s), Append(cur, s[1]), sep)

split(s, sep) == SplitFrom(s, <<>>, sep)

\* array[i] with i counted from 0: undefined past the end
At(array, i) == IF i + 1 <= Len(array) THEN Some(array[i + 1]) ELSE None

\* this.commonCurrencyCode (id): the alias table's entry, else id itself
commonCurrencyCode(id) ==
    IF id.defined /\ id.s = <<"XBT">> THEN Some(<<"BTC">>) ELSE id

\* this.safeFloat (market, key): the number under key, else undefined
safeFloat(market, key) == IF market[key].t = "num" THEN market[key] ELSE Undef

PriceMin == 2
PriceMax == 100

\* the body of the loop of fetchMarkets: one venue record made a market
Market(market) ==
    LET id == market.product_id
        baseId == At(split(id, "-"), 0)
        quoteId == At(split(id, "-"), 1)
        base == commonCurrencyCode(baseId)
        quote == commonCurrencyCode(quoteId)
        symbol == ToStr(base) \o <<"/">> \o ToStr(quote)
        amount == [min |-> safeFloat(market, "min_size"), max |-> safeFloat(market, "max_size")]
        price == [min |-> Num(PriceMin), max |-> Num(PriceMax)]
        cost == [min |-> Times(amount.min, price.min), max |-> Undef]
    IN  [id |-> id, symbol |-> symbol, base |-> base, quote |-> quote,
         baseId |-> baseId, quoteId |-> quoteId, active |-> TRUE,
         precision |-> [price |-> market.quote_increment, amount |-> market.unit_size],
         limits |-> [amount |-> amount, price |-> price, cost |-> cost],
         info |-> market]

\* what fetchMarkets () returns for the venue's list
fetchMarkets(markets) ==
    [error |-> "none", result |-> [p \in 1..Len(markets) |-> Market(markets[p])]]

ProductIds ==
    { <<"BTC", "-", "KRW">>, <<"XBT", "-", "KRW">>, <<"INVALID">>,
      <<"A", "-", "B", "-", "C">>, <<"BTC", "-">>, <<"-", "KRW">> }

\* the venue's product records; a field the venue leaves out reads as undefined
Products ==
    [ product_id : ProductIds, min_size : {Undef, Num(1), Num(3)},
      max_size : {Undef, Num(100)}, quote_increment : {Num(1)}, unit_size : {Num(1)} ]

NoMarkets == [error |-> "none", result |-> <<>>]

\* fetchMarkets () is called and awaits publicGetProducts ()
FetchMarketsCall ==
    /\ fmResponse.state = "idle"
    /\ fmResponse' = [state |-> "awaiting", markets |-> <<>>]
    /\ UNCHANGED <<fmResult, signVars, errorVars>>

\* the venue's list arrives and the loop runs over it
FetchMarketsResume ==
    /\ fmResponse.state = "awaiting"
    /\ \E markets \in SeqsUpTo(Products, MaxMarkets) :
           /\ fmResponse' = [state |-> "done", markets |-> markets]
           /\ fmResult' = fetchMarkets(markets)
    /\ UNCHANGED <<signVars, errorVars>>

\* the caller has the markets
FetchMarketsReturn ==
    /\ fmResponse.state = "done"
    /\ fmResponse' = [state |-> "idle", markets |-> <<>>]
    /\ fmResult' = NoMarkets
    /\ UNCHANGED <<signVars, errorVars>>

InitMarkets(list) ==
    /\ fmResponse = [state |-> "idle", markets |-> list]
    /\ fmResult = NoMarkets

-----------------------------------------------------------------------------
(* Specifications *)

DescribeCredentials == {<<DefaultApiKey, DefaultSecret>>}
DescribeTables == {[exact |-> DescribeExact, broad |-> DescribeBroad]}

\* sign () as a function of its arguments and the credentials
NextSign == Sign \/ SignReturn
InitSpecSign == InitSign(Credentials) /\ InitErrors(DescribeTables) /\ InitMarkets(<<>>)
SpecSign == InitSpecSign /\ [][NextSign]_vars

\* concurrent callers of one session
NextSession == \E c \in Callers : Invoke(c) \/ Request(c) \/ Respond(c)
SpecSession == InitSpecSign /\ [][NextSession]_vars

\* the error classifier on the transport's responses
NextErrors == Receive \/ HandleErrors \/ Return
InitSpecErrors == InitSign(DescribeCredentials) /\ InitErrors(ExceptionTables) /\ InitMarkets(<<>>)
SpecErrors == InitSpecErrors /\ [][NextErrors]_vars

\* the market normaliser on the venue's product lists
NextMarkets == FetchMarketsCall \/ FetchMarketsResume \/ FetchMarketsReturn
InitSpecMarkets == InitSign(DescribeCredentials) /\ InitErrors(DescribeTables) /\ InitMarkets(<<>>)
SpecMarkets == InitSpecMarkets /\ [][NextMarkets]_vars

-----------------------------------------------------------------------------
(* Properties of sign () *)

Taxonomy ==
    { "AuthenticationError", "InvalidNonce", "InvalidOrder", "OrderNotFound",
      "InsufficientFunds", "PermissionDenied", "DDoSProtection",
      "ExchangeNotAvailable", "ExchangeError" }

SignedPrivate == lastCall.called /\ lastCall.api = "private"

\* the part of a URL after its '?', empty when it has none
UrlQuery(url) ==
    IF \E i \in 1..Len(url) : url[i] = "?"
    THEN SubSeq(url, (CHOOSE i \in 1..Len(url) : url[i] = "?") + 1, Len(url))
    ELSE <<>>

\* the keys of a query string: the tokens before each '='
QueryKeys(q) == {q[i - 1] : i \in {j \in 2..Len(q) : q[j] = "="}}

BodyKeys(body) == IF body.defined THEN Keys(body.obj) ELSE {}

C5_AuthenticationErrorFirst ==
    (SignedPrivate /\ (lastCall.apiKey = Undefined \/ lastCall.secret = Undefined))
        => /\ lastSigned.error = "AuthenticationError"
           /\ nonceLast = lastCall.nonceBefore
           /\ ~lastSigned.headers.defined

\* C6: every params key that is no placeholder of the path is carried in the
\* descriptor in exactly one place, the URL query for a public call and the
\* body for a private one; a placeholder's key is in neither.  (Stated of
\* calls made with both credentials set.)
C6_ParamsCarriedOnce ==
    (lastCall.called /\ lastCall.apiKey # Undefined /\ lastCall.secret # Undefined) =>
        \A key \in Keys(lastCall.params) :
            LET inQuery == key \in QueryKeys(UrlQuery(lastSigned.url))
                inBody == key \in BodyKeys(lastSigned.body)
            IN  IF key \in extractParams(lastCall.path) THEN ~inQuery /\ ~inBody
                ELSE IF lastCall.api = "public" THEN inQuery /\ ~inBody
                ELSE inBody /\ ~inQuery

\* the resolved path of a descriptor: its URL after the host
ResolvedPath(url) == Tail(url)

-----------------------------------------------------------------------------
(* Properties of handleErrors () *)

Handled == heCall.state = "handled"

\* whether a body parses as a JSON object
ParsesAsObject(body) == Len(body) >= 1 /\ body[1].t = "{" /\ JSONparse(body).ok

\* the message of a body that parses: its message field, else its error field
HasMessage(body) ==
    /\ ParsesAsObject(body)
    /\ \/ HasKey(JSONparse(body).obj, <<"message">>)
       \/ HasKey(JSONparse(body).obj, <<"error">>)

MessageOf(body) ==
    LET obj == JSONparse(body).obj
    IN  IF HasKey(obj, <<"message">>) THEN Get(obj, <<"message">>) ELSE Get(obj, <<"error">>)

\* the broad keys, by index, that are substrings of a message
BroadHits(message) ==
    {i \in 1..Len(exceptions.broad) : IsSubstring(exceptions.broad[i].k, message)}

\* C2: for a status >= 400 and a body of two characters or more,
\* handleErrors raises an error of the taxonomy, and the generic
\* ExchangeError when the body does not parse as a JSON object.
C2_TotalFrom400 ==
    (Handled /\ heCall.code >= 400 /\ ~LengthBelow2(heCall.body))
        => /\ heResult.raised
           /\ heResult.kind \in Taxonomy
           /\ ~ParsesAsObject(heCall.body) => heResult.kind = "ExchangeError"

\* C3: for a status >= 400 and a body whose message is a key of the exact
\* table, the error raised is the exact table's for that message, also when
\* broad keys are substrings of the message.
C3_ExactFirst ==
    (Handled /\ heCall.code >= 400 /\ HasMessage(heCall.body)
        /\ HasKey(exceptions.exact, MessageOf(heCall.body)))
        => heResult = Throw(Get(exceptions.exact, MessageOf(heCall.body)))

\* an exact key that a broad key of another kind is a substring of was classified
C3_Witness ==
    /\ Handled /\ heCall.code >= 400 /\ HasMessage(heCall.body)
    /\ HasKey(exceptions.exact, MessageOf(heCall.body))
    /\ \E i \in BroadHits(MessageOf(heCall.body)) :
           exceptions.broad[i].v # Get(exceptions.exact, MessageOf(heCall.body))

\* the messages C4 names: those that start
\* 'Invalid order: not enough exchange balance for '
StartsNotEnoughBalance(m) ==
    Len(m) >= 2 /\ SubSeq(m, 1, 2) = <<"Invalid order", ": not enough exchange balance for ">>

\* for a message that is no exact key: the error of the first broad key, in
\* declaration order, that is a substring of it, and ExchangeError when there
\* is none
FirstBroadKeyDecides(m) ==
    /\ heResult.raised
    /\ BroadHits(m) = {} => heResult.kind = "ExchangeError"
    /\ \A i \in BroadHits(m) :
           (\A j \in BroadHits(m) : i <= j) => heResult.kind = exceptions.broad[i].v

ClassifiedBroadly ==
    /\ Handled /\ heCall.code >= 400 /\ HasMessage(heCall.body)
    /\ ~HasKey(exceptions.exact, MessageOf(heCall.body))

C9_SuccessBelow400 ==
    (Handled /\ heCall.code < 400) => heResult = NoError

\* a body whose message is an exact key was handled at a status below 400
C9_Witness ==
    /\ Handled /\ heCall.code < 400 /\ HasMessage(heCall.body)
    /\ HasKey(exceptions.exact, MessageOf(heCall.body))

-----------------------------------------------------------------------------
(* Properties of fetchMarkets () *)

Fetched == fmResponse.state = "done"

\* a product_id that does not split on '-' into exactly two non-empty segments
Malformed(id) ==
    LET parts == split(id, "-")
    IN  Len(parts) # 2 \/ \E i \in 1..Len(parts) : parts[i] = <<>>

\* C7: fetchMarkets fails with ExchangeError when a venue record's
\* product_id does not split on '-' into exactly two non-empty segments, and
\* emits no market for such a record.
C7_MalformedIdFails ==
    (Fetched /\ \E p \in 1..Len(fmResponse.markets) : Malformed(fmResponse.markets[p].product_id))
        => /\ fmResult.error = "ExchangeError"
           /\ \A p \in 1..Len(fmResult.result) : ~Malformed(fmResult.result[p].id)

\* C8: every market's limits.cost.min is limits.amount.min * limits.price.min
\* when both are defined, and undefined when the record has no min_size.
\* (Stated of the markets of well-formed product ids.)
C8_CostMinDerived ==
    Fetched =>
        \A p \in 1..Len(fmResult.result) :
            LET limits == fmResult.result[p].limits
            IN  ~Malformed(fmResult.result[p].id) =>
                    /\ (limits.amount.min.t = "num" /\ limits.price.min.t = "num")
                           => limits.cost.min = Num(limits.amount.min.n * limits.price.min.n)
                    /\ fmResult.result[p].info.min_size = Undef => limits.cost.min = Undef

====
